---- MODULE Spec2Model ----
(***************************************************************************)
(* Model of lib/ecs/run_oneoff_task.py: the one-shot ECS task launcher.    *)
(* Strings that the program inspects character by character (environment   *)
(* values) are sequences of one-character strings.                         *)
(***************************************************************************)
EXTENDS Integers, Sequences, FiniteSets, TLC

VARIABLES pc, argv, environ, overrides_env, req, net, ov, td, ecs_overrides,
          network, params, resp, calls, outcome, exit_code, err,
          csv_v, csv_out

vars == <<pc, argv, environ, overrides_env, req, net, ov, td, ecs_overrides,
          network, params, resp, calls, outcome, exit_code, err,
          csv_v, csv_out>>

(* ------------------------------ bounds -------------------------------- *)
MaxCsvLen == 4
MaxOverrides == 2
MaxPad == 1

(* ----------------------------- utilities ------------------------------ *)
\* Python's None, as a value no character sequence equals.
None == <<"None">>

\* the characters str.strip() removes (of those used here)
Whitespace == {" ", "\t"}

LowerCase == <<"a","b","c","d","e","f","g","h","i","j","k","l","m",
               "n","o","p","q","r","s","t","u","v","w","x","y","z">>
UpperCase == <<"A","B","C","D","E","F","G","H","I","J","K","L","M",
               "N","O","P","Q","R","S","T","U","V","W","X","Y","Z">>

upper_char(c) ==
  IF \E i \in 1..Len(LowerCase) : LowerCase[i] = c
  THEN UpperCase[CHOOSE i \in 1..Len(LowerCase) : LowerCase[i] = c]
  ELSE c

\* str.upper()
upper(s) == [i \in 1..Len(s) |-> upper_char(s[i])]

\* str.strip()
strip(s) ==
  LET keep == {i \in 1..Len(s) : s[i] \notin Whitespace}
  IN IF keep = {} THEN <<>>
     ELSE LET lo == CHOOSE i \in keep : \A j \in keep : i <= j
              hi == CHOOSE i \in keep : \A j \in keep : j <= i
          IN SubSeq(s, lo, hi)

\* str.replace(old, "") for a one-character old
replace(s, old) == SelectSeq(s, LAMBDA c : c # old)

\* str.split(sep) for a one-character sep
RECURSIVE split(_, _)
split(s, sep) ==
  IF \E i \in 1..Len(s) : s[i] = sep
  THEN LET i == CHOOSE k \in 1..Len(s) :
                   s[k] = sep /\ \A j \in 1..(k-1) : s[j] # sep
       IN <<SubSeq(s, 1, i-1)>> \o split(SubSeq(s, i+1, Len(s)), sep)
  ELSE <<s>>

\* truthiness of a str | None
truthy(v) == v # None /\ v # <<>>

env(name, default) ==
  IF environ[name] # None THEN strip(environ[name]) ELSE default

split_csv(v) ==
  SelectSeq(split(replace(IF truthy(v) THEN v ELSE <<>>, " "), ","),
            LAMBDA x : x # <<>>)

(* --------------------------- config loaders --------------------------- *)
required == <<"task_definition_name", "ecs_cluster_name", "aws_region">>

\* load_required reporting only the first missing key
load_required_first_missing ==
  LET missing == SelectSeq(required, LAMBDA k : ~truthy(env(k, None)))
  IN IF missing # <<>>
     THEN [ok |-> FALSE, err |-> [msg |-> "Missing required env vars", keys |-> <<missing[1]>>]]
     ELSE [ok |-> TRUE, value |-> [k \in {required[i] : i \in 1..Len(required)} |-> env(k, None)]]

load_required ==
  LET missing == SelectSeq(required, LAMBDA k : ~truthy(env(k, None)))
  IN IF missing # <<>>
     THEN [ok |-> FALSE, err |-> [msg |-> "Missing required env vars", keys |-> missing]]
     ELSE [ok |-> TRUE, value |-> [k \in {required[i] : i \in 1..Len(required)} |-> env(k, None)]]

\* load_network comparing assign_public_ip without .upper()
load_network_case_sensitive ==
  LET subnets_raw == env("subnets", env("subnet_id", <<>>))
      sgs_raw == env("security_groups", env("sg_id", <<>>))
      a0 == env("assign_public_ip", <<"D","I","S","A","B","L","E","D">>)
      assign == IF truthy(a0) THEN a0 ELSE <<"D","I","S","A","B","L","E","D">>
      subnets == split_csv(subnets_raw)
      sgs == split_csv(sgs_raw)
  IN IF assign \notin {<<"E","N","A","B","L","E","D">>, <<"D","I","S","A","B","L","E","D">>}
     THEN [ok |-> FALSE, err |-> [msg |-> "assign_public_ip must be ENABLED or DISABLED"]]
     ELSE IF subnets = <<>>
     THEN [ok |-> FALSE, err |-> [msg |-> "No subnets provided"]]
     ELSE IF sgs = <<>>
     THEN [ok |-> FALSE, err |-> [msg |-> "No security groups provided"]]
     ELSE [ok |-> TRUE, value |-> [subnets |-> subnets, sgs |-> sgs, assign |-> assign]]

load_network ==
  LET subnets_raw == env("subnets", env("subnet_id", <<>>))
      sgs_raw == env("security_groups", env("sg_id", <<>>))
      a0 == env("assign_public_ip", <<"D","I","S","A","B","L","E","D">>)
      assign == upper(IF truthy(a0) THEN a0 ELSE <<"D","I","S","A","B","L","E","D">>)
      subnets == split_csv(subnets_raw)
      sgs == split_csv(sgs_raw)
  IN IF assign \notin {<<"E","N","A","B","L","E","D">>, <<"D","I","S","A","B","L","E","D">>}
     THEN [ok |-> FALSE, err |-> [msg |-> "assign_public_ip must be ENABLED or DISABLED"]]
     ELSE IF subnets = <<>>
     THEN [ok |-> FALSE, err |-> [msg |-> "No subnets provided"]]
     ELSE IF sgs = <<>>
     THEN [ok |-> FALSE, err |-> [msg |-> "No security groups provided"]]
     ELSE [ok |-> TRUE, value |-> [subnets |-> subnets, sgs |-> sgs, assign |-> assign]]


\* JSON values of the overrides payload
JNull == [type |-> "null"]
JString(x) == [type |-> "string", s |-> x]
JList(xs) == [type |-> "list", items |-> xs]

\* Python truthiness of a JSON value
json_truthy(j) ==
  CASE j.type = "null" -> FALSE
    [] j.type = "string" -> j.s # ""
    [] j.type = "list" -> j.items # <<>>

\* a Python None where a dict is expected
NoneObj == [py_none |-> TRUE]

\* overrides_env abstracts os.environ["overrides"] up to what json.loads
\* makes of it: unset, blank, malformed text, a non-array document, an array
load_overrides ==
  CASE overrides_env.kind \in {"unset", "blank"} -> [ok |-> TRUE, value |-> <<>>]
    [] overrides_env.kind = "malformed" ->
         [ok |-> FALSE, err |-> [msg |-> "overrides is not valid JSON"]]
    [] overrides_env.kind = "nonarray" ->
         [ok |-> FALSE, err |-> [msg |-> "overrides must be a JSON array"]]
    [] overrides_env.kind = "array" -> [ok |-> TRUE, value |-> overrides_env.items]

(* ------------------------- overrides handling ------------------------- *)
\* validate_overrides_targets without the membership test
validate_overrides_targets_presence_only(task_def, overrides) ==
  LET tgt(i) == overrides[i].target_container_name
      fails == {i \in 1..Len(overrides) : ~json_truthy(tgt(i))}
  IN IF fails = {} THEN [ok |-> TRUE]
     ELSE [ok |-> FALSE,
           err |-> [msg |-> "overrides[i] missing 'target_container_name'",
                    index |-> CHOOSE k \in fails : \A j \in fails : k <= j]]

validate_overrides_targets(task_def, overrides) ==
  LET existing == {task_def.containerDefinitions[i].name :
                     i \in 1..Len(task_def.containerDefinitions)}
      tgt(i) == overrides[i].target_container_name
      bad(i) == ~json_truthy(tgt(i)) \/ tgt(i).s \notin existing
      fails == {i \in 1..Len(overrides) : bad(i)}
  IN IF fails = {} THEN [ok |-> TRUE]
     ELSE LET i == CHOOSE k \in fails : \A j \in fails : k <= j
          IN IF ~json_truthy(tgt(i))
             THEN [ok |-> FALSE,
                   err |-> [msg |-> "overrides[i] missing 'target_container_name'",
                            index |-> i]]
             ELSE [ok |-> FALSE,
                   err |-> [msg |-> "target_container_name not found in task definition containers",
                            target |-> tgt(i).s, known |-> existing]]

build_ecs_overrides(overrides) ==
  IF overrides = <<>> THEN [ok |-> TRUE, value |-> NoneObj]
  ELSE LET e(i) == overrides[i].environment
           notlist == {i \in 1..Len(overrides) : json_truthy(e(i)) /\ e(i).type # "list"}
           kept == SelectSeq(overrides, LAMBDA item : json_truthy(item.environment))
           conv == [k \in 1..Len(kept) |->
                      [name |-> kept[k].target_container_name.s,
                       environment |-> kept[k].environment.items]]
       IN IF notlist # {}
          THEN [ok |-> FALSE,
                err |-> [msg |-> "overrides[i].environment must be an array",
                         index |-> CHOOSE k \in notlist : \A j \in notlist : k <= j]]
          ELSE [ok |-> TRUE, value |-> [containerOverrides |-> conv]]

(* ------------------------------ run task ------------------------------ *)
build_network_configuration(subnets, sgs, assign) ==
  [awsvpcConfiguration |->
     [subnets |-> subnets, securityGroups |-> sgs, assignPublicIp |-> assign]]

\* truthiness of Dict | None
dict_truthy(d) == d # NoneObj /\ DOMAIN d # {}

\* the keyword arguments run_task hands to ecs.run_task
run_task_params(cluster, task_def, nw, overrides) ==
  LET base == [cluster |-> cluster, launchType |-> "FARGATE",
               taskDefinition |-> task_def, enableExecuteCommand |-> TRUE,
               networkConfiguration |-> nw]
  IN IF dict_truthy(overrides) THEN [overrides |-> overrides] @@ base ELSE base

\* dict.get(key, []) on the launch response
resp_get(r, key) == IF key \in DOMAIN r THEN r[key] ELSE <<>>

task_summary(t) ==
  [taskArn |-> t.taskArn, lastStatus |-> t.lastStatus,
   desiredStatus |-> t.desiredStatus, launchType |-> t.launchType,
   platformVersion |-> t.platformVersion, createdAt |-> t.createdAt,
   startedAt |-> t.startedAt,
   containers |-> [i \in 1..Len(t.containers) |->
                     [name |-> t.containers[i].name,
                      lastStatus |-> t.containers[i].lastStatus]]]

\* summarize testing failures before tasks
summarize_failures_first(r) ==
  LET tasks == resp_get(r, "tasks")
      fails == resp_get(r, "failures")
  IN IF fails # <<>>
     THEN [kind |-> "Failed", stream |-> "stderr", exit |-> 1,
           payload |-> [failures |-> fails]]
     ELSE IF tasks # <<>>
     THEN [kind |-> "Started", stream |-> "stdout", exit |-> 0,
           payload |-> [tasks |-> [i \in 1..Len(tasks) |-> task_summary(tasks[i])]]]
     ELSE [kind |-> "Unknown", stream |-> "stdout", exit |-> 0, payload |-> r]

summarize(r) ==
  LET tasks == resp_get(r, "tasks")
      fails == resp_get(r, "failures")
  IN IF tasks # <<>>
     THEN [kind |-> "Started", stream |-> "stdout", exit |-> 0,
           payload |-> [tasks |-> [i \in 1..Len(tasks) |-> task_summary(tasks[i])]]]
     ELSE IF fails # <<>>
     THEN [kind |-> "Failed", stream |-> "stderr", exit |-> 1,
           payload |-> [failures |-> fails]]
     ELSE [kind |-> "Unknown", stream |-> "stdout", exit |-> 0, payload |-> r]


(* -------------------------- the control plane ------------------------- *)
\* what a boto3 call can do: return, raise ClientError (caught, die), or
\* raise anything else (uncaught: traceback, exit status 1)
ApiOutcomes == {"ok", "ClientError", "OtherError"}

TaskDefinitions ==
  { [containerDefinitions |-> <<[name |-> "web"]>>],
    [containerDefinitions |-> <<[name |-> "web"], [name |-> "sidecar2"]>>] }

Task1 ==
  [taskArn |-> "arn:task/1", lastStatus |-> "PROVISIONING",
   desiredStatus |-> "RUNNING", launchType |-> "FARGATE",
   platformVersion |-> "1.4.0", createdAt |-> "t0", startedAt |-> "None",
   clusterArn |-> "arn:cluster/c",
   containers |-> <<[name |-> "web", lastStatus |-> "PENDING", image |-> "img"]>>]

Failure1 == [arn |-> "arn:ci/1", reason |-> "RESOURCE:MEMORY"]

TaskLists == {<<>>, <<Task1>>}
FailureLists == {<<>>, <<Failure1>>}

Responses ==
  {[tasks |-> t, failures |-> f] : t \in TaskLists, f \in FailureLists}
  \cup {[tasks |-> t] : t \in TaskLists}
  \cup {[failures |-> f] : f \in FailureLists}
  \cup {[ResponseMetadata |-> "m"]}

(* ------------------------------- main --------------------------------- *)
die(m) == pc' = "exit" /\ exit_code' = 1 /\ err' = m

\* an exception nothing catches ends the interpreter with status 1
uncaught(api) == die([msg |-> "Traceback", at |-> api])

inputs == <<argv, environ, overrides_env, csv_v>>

Help ==
  /\ pc = "main"
  /\ IF Len(argv) > 0 /\ argv[1] \in {"-h", "--help"}
     THEN pc' = "exit" /\ exit_code' = 0
     ELSE pc' = "load_required" /\ UNCHANGED exit_code
  /\ UNCHANGED <<inputs, req, net, ov, td, ecs_overrides, network, params,
                 resp, calls, outcome, err, csv_out>>

LoadRequired ==
  /\ pc = "load_required"
  /\ LET r == load_required
     IN IF r.ok
        THEN req' = r.value /\ pc' = "load_network" /\ UNCHANGED <<exit_code, err>>
        ELSE die(r.err) /\ UNCHANGED req
  /\ UNCHANGED <<inputs, net, ov, td, ecs_overrides, network, params,
                 resp, calls, outcome, csv_out>>

LoadNetwork ==
  /\ pc = "load_network"
  /\ LET r == load_network
     IN IF r.ok
        THEN net' = r.value /\ pc' = "load_overrides" /\ UNCHANGED <<exit_code, err>>
        ELSE die(r.err) /\ UNCHANGED net
  /\ UNCHANGED <<inputs, req, ov, td, ecs_overrides, network, params,
                 resp, calls, outcome, csv_out>>

LoadOverrides ==
  /\ pc = "load_overrides"
  /\ LET r == load_overrides
     IN IF r.ok
        THEN ov' = r.value /\ pc' = "fetch_account_id" /\ UNCHANGED <<exit_code, err>>
        ELSE die(r.err) /\ UNCHANGED ov
  /\ UNCHANGED <<inputs, req, net, td, ecs_overrides, network, params,
                 resp, calls, outcome, csv_out>>

\* one control-plane call: log it, then continue, die or crash
api_call(api, o, next, msg) ==
  /\ calls' = Append(calls, [api |-> api, result |-> o])
  /\ CASE o = "ok" -> pc' = next /\ UNCHANGED <<exit_code, err>>
       [] o = "ClientError" -> die([msg |-> msg])
       [] o = "OtherError" -> uncaught(api)

fetch_account_id(o) ==
  api_call("sts.get_caller_identity", o, "fetch_task_definition",
           "Failed to get AWS account ID")

fetch_task_definition(o) ==
  api_call("ecs.describe_task_definition", o, "validate_subnets",
           "Task definition not found")

\* validate_subnets swallowing the failure and carrying on
validate_subnets_carry_on(o) ==
  /\ calls' = Append(calls, [api |-> "ec2.describe_subnets", result |-> o])
  /\ pc' = "validate_sgs"
  /\ UNCHANGED <<exit_code, err>>

validate_subnets(o) ==
  api_call("ec2.describe_subnets", o, "validate_sgs", "Subnet check failed")

validate_sgs(o) ==
  api_call("ec2.describe_security_groups", o, "validate_overrides_targets",
           "Security group check failed")

FetchAccountId ==
  /\ pc = "fetch_account_id"
  /\ \E o \in ApiOutcomes : fetch_account_id(o)
  /\ UNCHANGED <<inputs, req, net, ov, td, ecs_overrides, network, params,
                 resp, outcome, csv_out>>

FetchTaskDefinition ==
  /\ pc = "fetch_task_definition"
  /\ \E o \in ApiOutcomes :
       /\ fetch_task_definition(o)
       /\ IF o = "ok" THEN td' \in TaskDefinitions ELSE UNCHANGED td
  /\ UNCHANGED <<inputs, req, net, ov, ecs_overrides, network, params,
                 resp, outcome, csv_out>>

ValidateSubnets ==
  /\ pc = "validate_subnets"
  /\ \E o \in ApiOutcomes : validate_subnets(o)
  /\ UNCHANGED <<inputs, req, net, ov, td, ecs_overrides, network, params,
                 resp, outcome, csv_out>>

ValidateSgs ==
  /\ pc = "validate_sgs"
  /\ \E o \in ApiOutcomes : validate_sgs(o)
  /\ UNCHANGED <<inputs, req, net, ov, td, ecs_overrides, network, params,
                 resp, outcome, csv_out>>

\* main's "if ov: validate_overrides_targets(td, ov)"
ValidateOverridesTargets ==
  /\ pc = "validate_overrides_targets"
  /\ LET r == IF ov # <<>> THEN validate_overrides_targets(td, ov) ELSE [ok |-> TRUE]
     IN IF r.ok
        THEN pc' = "build" /\ UNCHANGED <<exit_code, err>>
        ELSE die(r.err)
  /\ UNCHANGED <<inputs, req, net, ov, td, ecs_overrides, network, params,
                 resp, calls, outcome, csv_out>>

\* build_ecs_overrides, then build_network_configuration
BuildRequest ==
  /\ pc = "build"
  /\ LET r == build_ecs_overrides(ov)
     IN IF r.ok
        THEN /\ ecs_overrides' = r.value
             /\ network' = build_network_configuration(net.subnets, net.sgs, net.assign)
             /\ pc' = "run_task"
             /\ UNCHANGED <<exit_code, err>>
        ELSE die(r.err) /\ UNCHANGED <<ecs_overrides, network>>
  /\ UNCHANGED <<inputs, req, net, ov, td, params, resp, calls, outcome, csv_out>>

RunTask ==
  /\ pc = "run_task"
  /\ params' = run_task_params(req.ecs_cluster_name, req.task_definition_name,
                               network, ecs_overrides)
  /\ \E o \in ApiOutcomes :
       /\ api_call("ecs.run_task", o, "summarize", "ecs.run_task failed")
       /\ IF o = "ok" THEN resp' \in Responses ELSE UNCHANGED resp
  /\ UNCHANGED <<inputs, req, net, ov, td, ecs_overrides, network, outcome, csv_out>>

Summarize ==
  /\ pc = "summarize"
  /\ LET r == summarize(resp)
     IN /\ outcome' = r
        /\ exit_code' = r.exit
        /\ pc' = "exit"
  /\ UNCHANGED <<inputs, req, net, ov, td, ecs_overrides, network, params,
                 resp, calls, err, csv_out>>

Next ==
  \/ Help
  \/ LoadRequired
  \/ LoadNetwork
  \/ LoadOverrides
  \/ FetchAccountId
  \/ FetchTaskDefinition
  \/ ValidateSubnets
  \/ ValidateSgs
  \/ ValidateOverridesTargets
  \/ BuildRequest
  \/ RunTask
  \/ Summarize


(* ------------------------------ inputs -------------------------------- *)
\* all character sequences of length at most n over alphabet A
StringsUpTo(A, n) == UNION {[1..k -> A] : k \in 0..n}

Items ==
  [target_container_name : {JNull, JString("web"), JString("sidecar")},
   environment : {JNull, JList(<<>>),
                  JList(<<[name |-> "DEBUG", value |-> "true"]>>),
                  JString("x")}]

OverrideLists == StringsUpTo(Items, MaxOverrides)

OverridesEnvs ==
  {[kind |-> "unset"], [kind |-> "blank"], [kind |-> "malformed"],
   [kind |-> "nonarray"]}
  \cup {[kind |-> "array", items |-> l] : l \in OverrideLists}

EnvironsMain ==
  [task_definition_name : {None, <<"t","d">>},
   ecs_cluster_name : {<<"c">>},
   aws_region : {None, <<"r">>},
   subnets : {None, <<"a",","," ","b">>},
   subnet_id : {None, <<"b">>},
   security_groups : {None, <<"g">>},
   sg_id : {None},
   assign_public_ip : {None, <<"e","n","a","b","l","e","d">>, <<"x">>}]

InitRest ==
  /\ req = NoneObj /\ net = NoneObj /\ ov = <<>> /\ td = NoneObj
  /\ ecs_overrides = NoneObj /\ network = NoneObj /\ params = NoneObj
  /\ resp = NoneObj /\ calls = <<>> /\ outcome = NoneObj
  /\ exit_code = 0 /\ err = NoneObj /\ csv_out = <<>>

Init ==
  /\ pc = "main"
  /\ argv \in {<<>>, <<"--help">>}
  /\ environ \in EnvironsMain
  /\ overrides_env \in OverridesEnvs
  /\ csv_v = <<>>
  /\ InitRest

Spec == Init /\ [][Next]_vars


(* -------------------- load_required on its own ------------------------ *)
RequiredValues ==
  {None, <<>>, <<" ">>, <<"\t">>, <<"x">>, <<" ","x"," ">>}

EnvironsReq ==
  [task_definition_name : RequiredValues,
   ecs_cluster_name : RequiredValues,
   aws_region : RequiredValues,
   subnets : {<<"a">>}, subnet_id : {None},
   security_groups : {<<"g">>}, sg_id : {None},
   assign_public_ip : {None}]

InitReq ==
  /\ pc = "load_required"
  /\ argv = <<>>
  /\ environ \in EnvironsReq
  /\ overrides_env = [kind |-> "unset"]
  /\ csv_v = <<>>
  /\ InitRest

NextReq == LoadRequired

SpecReq == InitReq /\ [][NextReq]_vars

(* --------------------- load_network on its own ------------------------ *)
ListValues ==
  {None, <<>>, <<" ">>, <<",">>, <<"a">>, <<" ","a",","," ","b"," ">>}

LegacyValues == {None, <<>>, <<"c">>, <<"c",",","d">>}

PresentRequired ==
  [task_definition_name |-> <<"t","d">>, ecs_cluster_name |-> <<"c">>,
   aws_region |-> <<"r">>]

EnvironsNet ==
  {PresentRequired @@ e :
     e \in [subnets : ListValues, subnet_id : LegacyValues,
            security_groups : ListValues, sg_id : LegacyValues,
            assign_public_ip : {None, <<"E","N","A","B","L","E","D">>}]}

InitNet ==
  /\ pc = "load_network"
  /\ argv = <<>>
  /\ environ \in EnvironsNet
  /\ overrides_env = [kind |-> "unset"]
  /\ csv_v = <<>>
  /\ req = PresentRequired
  /\ net = NoneObj /\ ov = <<>> /\ td = NoneObj
  /\ ecs_overrides = NoneObj /\ network = NoneObj /\ params = NoneObj
  /\ resp = NoneObj /\ calls = <<>> /\ outcome = NoneObj
  /\ exit_code = 0 /\ err = NoneObj /\ csv_out = <<>>

NextNet == LoadNetwork

SpecNet == InitNet /\ [][NextNet]_vars

\* assign_public_ip: every case variant of a few words, padded with blanks
Enabled == <<"e","n","a","b","l","e","d">>
Disabled == <<"d","i","s","a","b","l","e","d">>

AssignWords == {Enabled, Disabled, <<"e","n","a","b","l","e">>, <<"o","n">>, <<>>}

CaseVariants(w) ==
  {[i \in 1..Len(w) |-> IF i \in m THEN upper_char(w[i]) ELSE w[i]] :
     m \in SUBSET (1..Len(w))}

Blanks(n) == [i \in 1..n |-> " "]

AssignValues ==
  {None} \cup
  {Blanks(l) \o v \o Blanks(r) :
     l \in 0..MaxPad, r \in 0..MaxPad,
     v \in UNION {CaseVariants(w) : w \in AssignWords}}

EnvironsAssign ==
  {PresentRequired @@ e :
     e \in [subnets : {<<"a">>}, subnet_id : {None},
            security_groups : {<<"g">>}, sg_id : {None},
            assign_public_ip : AssignValues]}

InitAssign ==
  /\ pc = "load_network"
  /\ argv = <<>>
  /\ environ \in EnvironsAssign
  /\ overrides_env = [kind |-> "unset"]
  /\ csv_v = <<>>
  /\ req = PresentRequired
  /\ net = NoneObj /\ ov = <<>> /\ td = NoneObj
  /\ ecs_overrides = NoneObj /\ network = NoneObj /\ params = NoneObj
  /\ resp = NoneObj /\ calls = <<>> /\ outcome = NoneObj
  /\ exit_code = 0 /\ err = NoneObj /\ csv_out = <<>>

NextAssign == LoadNetwork

SpecAssign == InitAssign /\ [][NextAssign]_vars

(* ----------------------- split_csv on its own ------------------------- *)
CsvAlphabet == {"a", "b", " ", ","}

SplitCsv ==
  /\ pc = "split_csv"
  /\ csv_out' = split_csv(csv_v)
  /\ pc' = "exit"
  /\ UNCHANGED <<inputs, req, net, ov, td, ecs_overrides, network, params,
                 resp, calls, outcome, exit_code, err>>

InitCsv ==
  /\ pc = "split_csv"
  /\ argv = <<>>
  /\ environ \in EnvironsAssign /\ environ.assign_public_ip = None
  /\ overrides_env = [kind |-> "unset"]
  /\ csv_v \in StringsUpTo(CsvAlphabet, MaxCsvLen)
  /\ InitRest

NextCsv == SplitCsv

SpecCsv == InitCsv /\ [][NextCsv]_vars


(* ============================ properties ============================== *)
ApiOrder ==
  <<"sts.get_caller_identity", "ecs.describe_task_definition",
    "ec2.describe_subnets", "ec2.describe_security_groups", "ecs.run_task">>

Issued(api) == {i \in 1..Len(calls) : calls[i].api = api}
Succeeded(api) == \E i \in Issued(api) : calls[i].result = "ok"

ContainerNames ==
  {td.containerDefinitions[i].name : i \in 1..Len(td.containerDefinitions)}

\* the override entries of the input, when it is a JSON array
InputOverrides ==
  IF overrides_env.kind = "array" THEN overrides_env.items ELSE <<>>

TargetAbsent(item) ==
  item.target_container_name.type # "string" \/ item.target_container_name.s = ""

TargetKnown(item) ==
  ~TargetAbsent(item) /\ item.target_container_name.s \in ContainerNames

\* C1: the launch call is issued at most once and only after the task
\* definition fetch, the subnet check, the security-group check and the
\* override target validation have succeeded; when some override entry's
\* target is not among the task definition's containers, the invocation halts
\* with an error before any launch request is built and never launches.
C1_LaunchOnlyAfterValidation ==
  /\ Cardinality(Issued("ecs.run_task")) <= 1
  /\ Issued("ecs.run_task") # {} =>
       /\ Succeeded("ecs.describe_task_definition")
       /\ Succeeded("ec2.describe_subnets")
       /\ Succeeded("ec2.describe_security_groups")
       /\ \A k \in 1..Len(InputOverrides) : TargetKnown(InputOverrides[k])
       /\ \A i \in Issued("ecs.run_task") :
            /\ \A j \in Issued("ecs.describe_task_definition") : j < i
            /\ \A j \in Issued("ec2.describe_subnets") : j < i
            /\ \A j \in Issued("ec2.describe_security_groups") : j < i
  /\ (td # NoneObj /\ \E k \in 1..Len(InputOverrides) : ~TargetKnown(InputOverrides[k])) =>
       /\ Issued("ecs.run_task") = {}
       /\ ecs_overrides = NoneObj /\ network = NoneObj /\ params = NoneObj
       /\ pc \notin {"build", "run_task", "summarize"}
       /\ pc = "exit" => exit_code = 1 /\ err # NoneObj

\* scenario B: "sidecar" is not among "web", "sidecar2"; every check passed
C1_Witness ==
  /\ pc = "exit" /\ exit_code = 1
  /\ td # NoneObj /\ ContainerNames = {"web", "sidecar2"}
  /\ Len(calls) = 4 /\ \A i \in 1..4 : calls[i].result = "ok"
  /\ \E k \in 1..Len(InputOverrides) :
       ~TargetAbsent(InputOverrides[k])
       /\ InputOverrides[k].target_container_name.s = "sidecar"
  /\ err.msg = "target_container_name not found in task definition containers"

\* the surviving entries of a validated override list
Survivors ==
  SelectSeq(ov, LAMBDA item :
    item.environment.type = "list" /\ item.environment.items # <<>>)

\* C2: entries whose environment list is empty or absent are excluded from
\* the containerOverrides sent; when none is left (also for a non-empty list
\* whose entries all lack environment values) the launch request carries no
\* overrides field at all.
C2_NoEmptyContainerOverrides ==
  Issued("ecs.run_task") # {} =>
    IF Survivors = <<>>
    THEN "overrides" \notin DOMAIN params
    ELSE /\ "overrides" \in DOMAIN params
         /\ params.overrides.containerOverrides =
              [k \in 1..Len(Survivors) |->
                 [name |-> Survivors[k].target_container_name.s,
                  environment |-> Survivors[k].environment.items]]

HasTasks == "tasks" \in DOMAIN resp /\ resp.tasks # <<>>
HasFailures == "failures" \in DOMAIN resp /\ resp.failures # <<>>

\* C3: the outcome is a function of the response alone: Started (stdout,
\* exit zero) whenever tasks is non-empty, Failed (stderr, nonzero exit)
\* exactly when tasks is empty and failures is not, Unknown (raw response,
\* exit zero) exactly when both are empty or absent; the exit status after
\* an accepted launch is nonzero iff tasks is empty and failures is not.
C3_SummarizeOutcome ==
  (pc = "exit" /\ Succeeded("ecs.run_task")) =>
    /\ outcome.kind \in {"Started", "Failed", "Unknown"}
    /\ outcome.kind = "Started" <=> HasTasks
    /\ outcome.kind = "Failed" <=> (~HasTasks /\ HasFailures)
    /\ outcome.kind = "Unknown" <=> (~HasTasks /\ ~HasFailures)
    /\ outcome.kind = "Started" =>
         /\ outcome.stream = "stdout"
         /\ Len(outcome.payload.tasks) = Len(resp.tasks)
         /\ \A i \in 1..Len(resp.tasks) :
              outcome.payload.tasks[i].taskArn = resp.tasks[i].taskArn
    /\ outcome.kind = "Failed" =>
         outcome.stream = "stderr" /\ outcome.payload = [failures |-> resp.failures]
    /\ outcome.kind = "Unknown" =>
         outcome.stream = "stdout" /\ outcome.payload = resp
    /\ exit_code # 0 <=> (~HasTasks /\ HasFailures)

\* scenario D: one task and one failure entry
C3_Witness ==
  /\ pc = "exit" /\ Succeeded("ecs.run_task")
  /\ HasTasks /\ HasFailures
  /\ outcome.kind = "Started" /\ exit_code = 0

OwnError(api, result) ==
  IF result = "OtherError" THEN [msg |-> "Traceback", at |-> api]
  ELSE CASE api = "sts.get_caller_identity" -> [msg |-> "Failed to get AWS account ID"]
         [] api = "ecs.describe_task_definition" -> [msg |-> "Task definition not found"]
         [] api = "ec2.describe_subnets" -> [msg |-> "Subnet check failed"]
         [] api = "ec2.describe_security_groups" -> [msg |-> "Security group check failed"]
         [] api = "ecs.run_task" -> [msg |-> "ecs.run_task failed"]

\* C4: the control-plane calls are issued in the order caller account, task
\* definition, subnets, security groups (then launch), each once; a call is
\* issued only after all earlier ones succeeded, and a failed one is the
\* last: the invocation halts with that call's own error and exit status 1.
C4_FailFastOrder ==
  /\ Len(calls) <= Len(ApiOrder)
  /\ \A i \in 1..Len(calls) :
       /\ calls[i].api = ApiOrder[i]
       /\ i < Len(calls) => calls[i].result = "ok"
       /\ calls[i].result # "ok" =>
            /\ pc = "exit" /\ exit_code = 1
            /\ err = OwnError(calls[i].api, calls[i].result)

C4_Witness ==
  /\ pc = "exit" /\ exit_code = 1
  /\ Len(calls) = 3
  /\ calls[3] = [api |-> "ec2.describe_subnets", result |-> "ClientError"]
  /\ err.msg = "Subnet check failed"

InputValidationMessages ==
  {"Missing required env vars", "assign_public_ip must be ENABLED or DISABLED",
   "No subnets provided", "No security groups provided",
   "overrides is not valid JSON", "overrides must be a JSON array",
   "overrides[i] missing 'target_container_name'"}

\* C5: every input-validation failure (missing required key, empty subnet or
\* security-group list, invalid assign_public_ip, malformed or non-array
\* overrides, an override element lacking target_container_name) ends the
\* invocation before any control-plane call has been issued.
C5_InputErrorsBeforeAnyCall ==
  (pc = "exit" /\ err # NoneObj /\ err.msg \in InputValidationMessages) =>
    calls = <<>>

AbsentOrBlank(v) == v = None \/ \A i \in 1..Len(v) : v[i] \in Whitespace

HoldsAnId(v) == v # None /\ \E i \in 1..Len(v) : v[i] \notin Whitespace \cup {","}

ResolvesFromLegacy(primary, legacy, field, msg) ==
  (AbsentOrBlank(environ[primary]) /\ HoldsAnId(environ[legacy])) =>
    /\ err # NoneObj => err.msg # msg
    /\ pc = "load_overrides" => net[field] = split_csv(strip(environ[legacy]))

\* C6: for subnets (legacy subnet_id) and security_groups (legacy sg_id):
\* when the primary key is absent or empty/blank and the legacy key holds at
\* least one ID, load_network resolves the field from the legacy key and
\* does not fail for it.
C6_FirstNonEmptyWins ==
  pc # "load_network" =>
    /\ ResolvesFromLegacy("subnets", "subnet_id", "subnets", "No subnets provided")
    /\ ResolvesFromLegacy("security_groups", "sg_id", "sgs", "No security groups provided")

\* C7: with configuration and resource checks passed, an override list in
\* which some entry lacks target_container_name makes the invocation fail
\* with an error naming the 1-based index of an entry lacking it, whatever
\* the other entries are.
C7_MissingTargetIndexNamed ==
  (/\ pc = "exit"
   /\ Len(calls) = 4 /\ \A i \in 1..4 : calls[i].result = "ok"
   /\ \E k \in 1..Len(ov) : TargetAbsent(ov[k])) =>
    /\ exit_code = 1
    /\ err.msg = "overrides[i] missing 'target_container_name'"
    /\ err.index \in 1..Len(ov) /\ TargetAbsent(ov[err.index])


ENABLED_ == <<"E","N","A","B","L","E","D">>
DISABLED_ == <<"D","I","S","A","B","L","E","D">>

\* v is word w up to the case of its letters
CaseVariantOf(v, w) ==
  Len(v) = Len(w) /\ \A i \in 1..Len(w) : v[i] \in {w[i], upper_char(w[i])}

Resolved(a) == pc = "load_overrides" /\ net # NoneObj /\ net.assign = a

ResolutionFailed == pc = "exit" /\ exit_code # 0 /\ net = NoneObj

\* C8 as stated: absent resolves to DISABLED; every case variant of
\* "enabled" resolves to ENABLED and of "disabled" to DISABLED; any other
\* string supplied for the key makes configuration resolution fail.
C8_AnyOtherStringFails ==
  pc # "load_network" =>
    LET a == environ.assign_public_ip
    IN CASE a = None -> Resolved(DISABLED_)
         [] a # None /\ CaseVariantOf(a, Enabled) -> Resolved(ENABLED_)
         [] a # None /\ CaseVariantOf(a, Disabled) -> Resolved(DISABLED_)
         [] OTHER -> ResolutionFailed

\* v without its leading and trailing whitespace, stated without strip
TrimmedIs(v, t) ==
  \E l \in 0..Len(v) : \E r \in 0..(Len(v) - l) :
    /\ \A i \in 1..l : v[i] \in Whitespace
    /\ \A i \in (Len(v) - r + 1)..Len(v) : v[i] \in Whitespace
    /\ t = SubSeq(v, l + 1, Len(v) - r)
    /\ t # <<>> => t[1] \notin Whitespace /\ t[Len(t)] \notin Whitespace

\* C8 amended: the supplied value is trimmed of surrounding whitespace first;
\* absent or trimmed-empty resolves to DISABLED, a trimmed case variant of
\* "enabled" to ENABLED and of "disabled" to DISABLED, and any other trimmed
\* value makes configuration resolution fail with no placement value.
C8_TrimmedCaseInsensitive ==
  pc # "load_network" =>
    LET a == environ.assign_public_ip
    IN IF a = None THEN Resolved(DISABLED_)
       ELSE \E t \in {SubSeq(a, i, j) : i \in 1..(Len(a) + 1), j \in 0..Len(a)} :
              /\ TrimmedIs(a, t)
              /\ CASE t = <<>> -> Resolved(DISABLED_)
                   [] CaseVariantOf(t, Enabled) -> Resolved(ENABLED_)
                   [] CaseVariantOf(t, Disabled) -> Resolved(DISABLED_)
                   [] OTHER -> ResolutionFailed

\* a padded mixed-case "Enabled" has been resolved
C8_Witness ==
  /\ environ.assign_public_ip = <<" ","E","n","a","b","l","e","d">>
  /\ Resolved(ENABLED_)

\* the segments of v between commas, each stripped, empty ones dropped
TrimmedSegments(v) ==
  LET segs == split(v, ",")
  IN SelectSeq([i \in 1..Len(segs) |-> strip(segs[i])], LAMBDA x : x # <<>>)

RECURSIVE JoinCsv(_)
JoinCsv(xs) ==
  IF xs = <<>> THEN <<>>
  ELSE IF Len(xs) = 1 THEN xs[1]
  ELSE xs[1] \o <<",">> \o JoinCsv(Tail(xs))

\* v with one more blank at position i (between v[i] and v[i+1])
WithBlankAt(v, i) == SubSeq(v, 1, i) \o <<" ">> \o SubSeq(v, i + 1, Len(v))

\* positions next to a separator or at either end
AroundSeparator(v, i) ==
  i = 0 \/ i = Len(v) \/ v[i] = "," \/ v[i + 1] = ","

\* C9: split_csv returns the comma-separated segments in order, each trimmed
\* of surrounding whitespace, empty ones discarded; inputs differing only in
\* whitespace around the separators parse alike; parsing the comma-joined
\* result again gives the same list.
C9_TrimmedSegmentsInOrder ==
  pc = "exit" =>
    /\ csv_out = TrimmedSegments(csv_v)
    /\ \A i \in 0..Len(csv_v) :
         AroundSeparator(csv_v, i) => split_csv(WithBlankAt(csv_v, i)) = csv_out
    /\ split_csv(JoinCsv(csv_out)) = csv_out

RequiredKeys == {"task_definition_name", "ecs_cluster_name", "aws_region"}

MissingKeys == {k \in RequiredKeys : AbsentOrBlank(environ[k])}

\* C10: load_required fails exactly when some required key is absent or
\* blank, its one error names every missing key and no present one; when
\* none is missing it returns all three values.
C10_AllMissingKeysNamed ==
  pc # "load_required" =>
    IF MissingKeys # {}
    THEN /\ pc = "exit" /\ exit_code = 1 /\ req = NoneObj
         /\ err.msg = "Missing required env vars"
         /\ {err.keys[i] : i \in 1..Len(err.keys)} = MissingKeys
         /\ Len(err.keys) = Cardinality(MissingKeys)
    ELSE /\ pc = "load_network" /\ err = NoneObj
         /\ DOMAIN req = RequiredKeys
         /\ \A k \in RequiredKeys : TrimmedIs(environ[k], req[k]) /\ req[k] # <<>>

\* two keys missing (one absent, one blank), both named
C10_Witness ==
  /\ pc = "exit"
  /\ environ.task_definition_name = None
  /\ environ.ecs_cluster_name = <<"x">>
  /\ environ.aws_region = <<" ">>
  /\ err.keys = <<"task_definition_name", "aws_region">>

====
